---- MODULE Spec2Model ----
(***************************************************************************)
(* Model of the client-side error classification and retry layer of the    *)
(* chat frontend:                                                          *)
(*   frontend/src/utils/telemetry.ts     TelemetryService                  *)
(*   frontend/src/utils/apiWithRetry.ts  ApiWithRetry                      *)
(*   frontend/src/components/common/ErrorDisplay.tsx       ErrorDisplay    *)
(*   frontend/src/components/common/ProgressiveLoader.tsx  ProgressiveLoader *)
(*   frontend/src/components/QuestionInput/QuestionInput.tsx  QuestionInput *)
(*   frontend/src/state/EnvironmentProvider.tsx            EnvironmentProvider *)
(*   frontend/src/components/common/EnvironmentSelector.tsx  EnvironmentSelector *)
(*   frontend/src/state/AppProvider.tsx                    AppStateProvider *)
(* Error messages are JavaScript strings and are modelled as TLA+ strings; *)
(* toLowerCase, includes and the template literals are computed character  *)
(* by character.                                                           *)
(***************************************************************************)
EXTENDS Integers, Sequences, FiniteSets, TLC

VARIABLES
    pc,                 \* position of the one ApiWithRetry.fetch call: loop | fetching |
                        \* reportResponse | reportCaught | delayAfterResponse |
                        \* delayAfterCatch | done
    url,                \* its url argument
    finalRetryOptions,  \* { ...defaultRetryOptions, ...retryOptions }
    attempt,            \* the loop counter
    error,              \* the failure of the current attempt (error / catch parameter)
    lastError,          \* let lastError: Error
    response,           \* the Response of the current attempt
    timeoutId,          \* the timer of fetchWithTimeout: none | pending | fired | cleared
    aborted,            \* controller.signal.aborted
    telemetryData,      \* the ErrorTelemetryData of the latest reportError call
    reportCount,        \* number of telemetryService.reportError calls
    failedAttempts,     \* number of attempts that ended in a failure
    requestCount,       \* number of fetchWithTimeout calls
    delayMs,            \* argument of the delay being awaited (0: none)
    result,             \* outcome of the call: pending | returned | thrown
    telemetryPost,      \* the POST of the latest reportError of the current attempt:
                        \* none | pending | resolved | rejected
    pendingTimers,      \* number of timeout timers set and neither cleared nor fired
    rethrownCount,      \* number of ApiErrors thrown from the try block into its catch
    networkOnly,        \* every failure so far was classified 'network'
    callerSignalAborted, \* options.signal.aborted, the caller's own signal
    language,           \* ErrorDisplay: frontendSettings.ui.language of the app state
    displayedError,     \* ErrorDisplay: its error prop
    display,            \* ErrorDisplay: what it renders
    mounted,            \* ProgressiveLoader: the component is mounted
    isLoading,          \* ProgressiveLoader: its isLoading prop
    onTimeout,          \* ProgressiveLoader: its onTimeout prop (the callback's identity)
    timeoutDuration,    \* ProgressiveLoader: its timeoutDuration prop, or the default
    currentStage,       \* ProgressiveLoader: useState(0)
    startTime,          \* ProgressiveLoader: useState<number | null>(null)
    timers,             \* ProgressiveLoader: the timers set by its effect, not yet
                        \* fired or cleared
    now,                \* the clock, in ms
    callStart,          \* the time isLoading last became true in the mounted
                        \* component (-1: never)
    timeoutCalls,       \* invocations of onTimeout since isLoading last became true
    depsChanged,        \* onTimeout or timeoutDuration has changed since isLoading
                        \* last became true
    question,           \* QuestionInput: useState<string>('')
    base64Image,        \* QuestionInput: useState<string | null>(null)
    pdfContent,         \* QuestionInput: useState<string | null>(null)
    disabled,           \* QuestionInput: its disabled prop
    clearOnSend,        \* QuestionInput: its clearOnSend prop
    conversationId,     \* QuestionInput: its conversationId prop
    ui,                 \* QuestionInput: frontendSettings.ui of the app state
    appInsights,        \* QuestionInput: useAppInsights(), the client or undefined
    onSendCalls,        \* number of invocations of the onSend prop
    lastSent,           \* the arguments of the latest onSend invocation
    trackedEvents,      \* number of appInsights.trackEvent calls
    submissions,        \* number of sendQuestion calls (clicks and Enter presses)
    lastEvent,          \* what the latest step of QuestionInput was: none | change |
                        \* upload | sent | rejected | settled
    callsInFlight,      \* conversation calls started by onSend and not yet settled
    environments,       \* EnvironmentProvider: useState<Environment[]>([]), the ids
    selectedEnvironment, \* EnvironmentProvider: useState<string | null>(null)
    environmentsLoading, \* EnvironmentProvider: its isLoading state
    hashEnv,            \* the env parameter of window.location.hash (null: none)
    intendedEnvironment, \* sessionStorage item 'intended_environment'
    hashChangeEvents,   \* hashchange events dispatched and not yet handled
    initPc,             \* initializeEnvironments: fetching | done
    envLastStep,        \* the latest step of the environment components
    userActions,        \* number of selections and navigations of the user
    lastUserAction,     \* the latest of them: none | select (of a valid id) |
                        \* selectUnknown | hashEmpty (a hash without env) | hashEnv
    pendingEnvironment, \* EnvironmentSelector: useState<string | null>(null)
    isDialogOpen,       \* EnvironmentSelector: useState(false)
    isTransitioning,    \* EnvironmentSelector: useState(false)
    currentChat,        \* the currentChat of the app state (null: no active chat)
    switches,           \* EnvironmentSelector: the executeEnvironmentSwitch calls
                        \* under way, in the order they started
    appMounted,         \* AppStateProvider is mounted
    frontendSettings,   \* AppStateProvider: state.frontendSettings
    chatHistory,        \* AppStateProvider: state.chatHistory
    requests,           \* AppStateProvider: the requests of its effects that are
                        \* outstanding
    effectEnvironment   \* AppStateProvider: the selectedEnvironment its effects
                        \* last ran for

\* the variables of ErrorDisplay
displayVars == <<language, displayedError, display>>

\* the variables of ProgressiveLoader
loaderVars == <<mounted, isLoading, onTimeout, timeoutDuration, currentStage, startTime,
                timers, now, callStart, timeoutCalls, depsChanged>>

\* the variables of QuestionInput and of the parent that renders it
inputVars == <<question, base64Image, pdfContent, disabled, clearOnSend, conversationId,
               ui, appInsights, onSendCalls, lastSent, trackedEvents, submissions,
               lastEvent, callsInFlight>>

\* the variables of EnvironmentProvider and of the page's URL and storage
providerVars == <<environments, selectedEnvironment, environmentsLoading, hashEnv,
                  intendedEnvironment, hashChangeEvents, initPc, envLastStep,
                  userActions, lastUserAction>>

\* the same without the record of the latest step
providerVars_ExceptLastStep ==
    <<environments, selectedEnvironment, environmentsLoading, hashEnv,
      intendedEnvironment, hashChangeEvents, initPc, userActions, lastUserAction>>

\* the variables of EnvironmentSelector
selectorVars == <<pendingEnvironment, isDialogOpen, isTransitioning, currentChat,
                  switches>>

\* the variables of AppStateProvider
appVars == <<appMounted, frontendSettings, chatHistory, requests, effectEnvironment>>

\* the variables of the environment components
envVars == <<providerVars, selectorVars, appVars>>

vars == <<pc, url, finalRetryOptions, attempt, error, lastError, response, timeoutId,
          aborted, telemetryData, reportCount, failedAttempts, requestCount, delayMs,
          result, telemetryPost, pendingTimers, rethrownCount, networkOnly,
          callerSignalAborted, displayVars, loaderVars, inputVars, envVars>>

(***************************************************************************)
(* Bounds of the model.                                                    *)
(***************************************************************************)
\* the largest maxRetries a caller passes in retryOptions
MaxRetriesBound == 5

\* the largest step of the clock, in ms
TickMs == 2000

\* the time at which the clock stops, in ms
MaxClock == 30000

\* a timeoutDuration a parent passes to ProgressiveLoader instead of the default
ShortTimeoutMs == 8000

(***************************************************************************)
(* JavaScript strings.                                                     *)
(***************************************************************************)
UpperCaseLetters == "ABCDEFGHIJKLMNOPQRSTUVWXYZ"

LowerCaseLetters == "abcdefghijklmnopqrstuvwxyz"

\* the map String.prototype.toLowerCase applies to each character
ToLowerTable == [c \in {SubSeq(UpperCaseLetters, i, i) : i \in 1..26} |->
                   LET i == CHOOSE j \in 1..26 : SubSeq(UpperCaseLetters, j, j) = c
                   IN  SubSeq(LowerCaseLetters, i, i)]

\* String.prototype.toLowerCase, computed character by character
RECURSIVE LowerCaseOf(_)
LowerCaseOf(s) ==
    IF Len(s) = 0 THEN ""
    ELSE LET c == SubSeq(s, 1, 1)
         IN  (IF c \in DOMAIN ToLowerTable THEN ToLowerTable[c] ELSE c)
                 \o LowerCaseOf(SubSeq(s, 2, Len(s)))

\* String.prototype.includes: a case-sensitive substring test
IncludesOf(s, sub) ==
    \E i \in 1..(Len(s) - Len(sub) + 1) : SubSeq(s, i, i + Len(sub) - 1) = sub

(***************************************************************************)
(* The error classes of apiWithRetry.ts and the errors of the platform.    *)
(***************************************************************************)
Undefined == [class |-> "undefined"]

NoResponse == [status |-> 0, statusText |-> "", ok |-> FALSE]

ApiError(message, status, statusText) ==
    [class |-> "ApiError", name |-> "ApiError", message |-> message,
     status |-> status, statusText |-> statusText]

TimeoutError(message) ==
    [class |-> "TimeoutError", name |-> "TimeoutError", message |-> message]

NetworkError(message) ==
    [class |-> "NetworkError", name |-> "NetworkError", message |-> message]

\* what the platform's fetch rejects with when its signal is aborted
AbortError ==
    [class |-> "DOMException", name |-> "AbortError",
     message |-> "The user aborted a request."]

\* rejections of the platform's fetch other than an abort: the TypeError of a
\* connectivity loss as Chromium and as WebKit word it, and errors raised by
\* whatever stands in for fetch (an interceptor, a service worker)
FetchRejections ==
    { [class |-> "TypeError", name |-> "TypeError", message |-> "Failed to fetch"],
      [class |-> "TypeError", name |-> "TypeError", message |-> "Load failed"],
      [class |-> "Error", name |-> "Error", message |-> "Stream reader closed"],
      [class |-> "Error", name |-> "Error", message |-> "Unauthorized"],
      [class |-> "Error", name |-> "Error", message |-> "API server error 503"],
      [class |-> "Error", name |-> "Error", message |-> "API server error 400"] }

\* the status lines a server answers with; status and reason phrase are
\* independent fields of a Response
Statuses == {200, 401, 404, 429, 500, 503}

StatusTexts == {"", "Unauthorized", "Internal Server Error", "Service Unavailable",
                "Network Authentication Required"}

\* a Response that counts as ok unless it is a server error
Response_OkBelow500(status, statusText) ==
    [status |-> status, statusText |-> statusText, ok |-> status < 500]

Response(status, statusText) ==
    [status |-> status, statusText |-> statusText,
     ok |-> (status >= 200 /\ status <= 299)]

\* endpoints of the backend (api.ts)
Urls == {"/conversation", "/api/environments"}

(***************************************************************************)
(* ApiWithRetry (apiWithRetry.ts).                                         *)
(***************************************************************************)
defaultRetryOptions ==
    [maxRetries |-> 3, baseDelay |-> 1000, maxDelay |-> 10000,
     backoffFactor |-> 2, timeout |-> 30000]

\* the retryOptions a caller passes: none, its own retry count, or its own delays
UserRetryOptions ==
    {<<>>, [baseDelay |-> 500, maxDelay |-> 3000, backoffFactor |-> 3]}
        \cup {[maxRetries |-> n] : n \in (-1)..MaxRetriesBound}

\* { ...this.defaultRetryOptions, ...retryOptions }
MergeRetryOptions(retryOptions) == retryOptions @@ defaultRetryOptions

\* a shouldRetry without its test of the attempt number
shouldRetry_AttemptIgnored(status, att, maxRetries) ==
    status >= 500 \/ status = 408 \/ status = 429

shouldRetry(status, att, maxRetries) ==
    IF att >= maxRetries THEN FALSE
    ELSE status >= 500 \/ status = 408 \/ status = 429

Min(a, b) == IF a <= b THEN a ELSE b

\* calculateDelay without the Math.min against maxDelay
calculateDelay_Unclamped(att, options) ==
    options.baseDelay * (options.backoffFactor ^ att)

calculateDelay(att, options) ==
    LET delay == options.baseDelay * (options.backoffFactor ^ att)
    IN  Min(delay, options.maxDelay)

\* retryInfo.retryAfter || this.calculateDelay(attempt, finalRetryOptions)
RetryDelay(retryInfo, att, options) ==
    IF "retryAfter" \in DOMAIN retryInfo /\ retryInfo.retryAfter # 0
    THEN retryInfo.retryAfter
    ELSE calculateDelay(att, options)

\* words of the messages of the errors handed to ErrorDisplay
DisplayWords ==
    {"Network", "TIMEOUT", "Aborted", "Unauthorized", "Stream", "API server", "503",
     "timed out", "oops"}

DisplayMessages == {w1 \o ": " \o w2 : w1, w2 \in DisplayWords}

\* the name property of those errors
ErrorNames == {"Error", "TypeError", "TimeoutError", "ApiError"}

\* the errors handed to ErrorDisplay
DisplayErrors ==
    {[class |-> n, name |-> n, message |-> m,
      stack |-> n \o ": " \o m \o "\n    at ApiWithRetry.fetch"] :
        n \in ErrorNames, m \in DisplayMessages}

\* the messages of the errors of ApiWithRetry
ErrorMessages ==
    {"HTTP " \o ToString(status) \o ": " \o statusText :
        status \in Statuses, statusText \in StatusTexts}
    \cup {raw.message : raw \in FetchRejections}
    \cup {"Request to " \o u \o " timed out after "
                \o ToString(defaultRetryOptions.timeout) \o "ms" : u \in Urls}
    \cup {"Network error when requesting " \o u : u \in Urls}

\* LowerCaseOf tabulated for those messages, so that it is computed once
LowerCased == [s \in ErrorMessages |-> LowerCaseOf(s)]

toLowerCase(s) == IF s \in DOMAIN LowerCased THEN LowerCased[s] ELSE LowerCaseOf(s)

\* the substrings categorizeError and isRetryableError look for
Keywords ==
    {"network", "fetch", "timeout", "aborted", "unauthorized", "forbidden", "stream",
     "reader", "api", "server", "500", "502", "503"}

\* IncludesOf tabulated for the lower-cased messages and those substrings
Included ==
    [s \in {LowerCased[m] : m \in ErrorMessages}, sub \in Keywords |-> IncludesOf(s, sub)]

includes(s, sub) ==
    IF <<s, sub>> \in DOMAIN Included THEN Included[s, sub] ELSE IncludesOf(s, sub)

\* the catch clause of fetchWithTimeout
ConvertFetchError(e, u, timeout) ==
    IF e.name = "AbortError"
    THEN TimeoutError("Request to " \o u \o " timed out after " \o ToString(timeout) \o "ms")
    ELSE IF e.class = "TypeError" /\ includes(e.message, "fetch")
    THEN NetworkError("Network error when requesting " \o u)
    ELSE e

(***************************************************************************)
(* TelemetryService (telemetry.ts).                                        *)
(***************************************************************************)
\* a categorizeError that does not lower-case the message
categorizeError_CaseSensitive(e) ==
    LET message == e.message
    IN  IF includes(message, "network") \/ includes(message, "fetch") THEN "network"
        ELSE IF includes(message, "timeout") \/ includes(message, "aborted") THEN "timeout"
        ELSE IF includes(message, "unauthorized") \/ includes(message, "forbidden") THEN "auth"
        ELSE IF includes(message, "stream") \/ includes(message, "reader") THEN "streaming"
        ELSE IF includes(message, "api") \/ includes(message, "server") THEN "api"
        ELSE "unknown"

categorizeError(e) ==
    LET message == toLowerCase(e.message)
    IN  IF includes(message, "network") \/ includes(message, "fetch") THEN "network"
        ELSE IF includes(message, "timeout") \/ includes(message, "aborted") THEN "timeout"
        ELSE IF includes(message, "unauthorized") \/ includes(message, "forbidden") THEN "auth"
        ELSE IF includes(message, "stream") \/ includes(message, "reader") THEN "streaming"
        ELSE IF includes(message, "api") \/ includes(message, "server") THEN "api"
        ELSE "unknown"

\* a categorizeErrorSeverity without the case for 'network'
categorizeErrorSeverity_NetworkByDefault(e) ==
    LET category == categorizeError(e)
    IN  CASE category = "auth" -> "critical"
          [] category = "api" -> "high"
          [] category \in {"timeout", "streaming"} -> "medium"
          [] OTHER -> "medium"

categorizeErrorSeverity(e) ==
    LET category == categorizeError(e)
    IN  CASE category = "auth" -> "critical"
          [] category = "api" -> "high"
          [] category \in {"timeout", "streaming"} -> "medium"
          [] category = "network" -> "low"
          [] OTHER -> "medium"

\* a RetryableError; retryAfter and maxRetries are optional fields
isRetryableError(e) ==
    LET category == categorizeError(e)
        message == toLowerCase(e.message)
    IN  CASE category \in {"network", "timeout"} ->
               [isRetryable |-> TRUE, retryAfter |-> 1000, maxRetries |-> 3]
          [] category = "api" ->
               IF includes(message, "500") \/ includes(message, "502")
                    \/ includes(message, "503")
               THEN [isRetryable |-> TRUE, retryAfter |-> 2000, maxRetries |-> 2]
               ELSE [isRetryable |-> FALSE]
          [] category = "streaming" ->
               [isRetryable |-> TRUE, retryAfter |-> 500, maxRetries |-> 2]
          [] category = "auth" -> [isRetryable |-> FALSE]
          [] OTHER -> [isRetryable |-> FALSE]

\* the ErrorTelemetryData reportError builds (the fields the classifier decides)
TelemetryDataOf(e) ==
    [message |-> e.message, name |-> e.name,
     severity |-> categorizeErrorSeverity(e), category |-> categorizeError(e)]

\* a getUserFriendlyErrorMessage whose default case returns the error's message
getUserFriendlyErrorMessage_RawDefault(e) ==
    LET category == categorizeError(e)
    IN  CASE category = "network" ->
               "Network connection issue. Please check your internet connection and try again."
          [] category = "timeout" ->
               "Request timed out. Please try again or rephrase your question."
          [] category = "auth" ->
               "Authentication issue. Please refresh the page and try again."
          [] category = "streaming" -> "Connection interrupted. Please try again."
          [] category = "api" ->
               "I'm experiencing technical difficulties. Please refresh the page or try again later."
          [] OTHER -> e.message

getUserFriendlyErrorMessage(e) ==
    LET category == categorizeError(e)
    IN  CASE category = "network" ->
               "Network connection issue. Please check your internet connection and try again."
          [] category = "timeout" ->
               "Request timed out. Please try again or rephrase your question."
          [] category = "auth" ->
               "Authentication issue. Please refresh the page and try again."
          [] category = "streaming" -> "Connection interrupted. Please try again."
          [] category = "api" ->
               "I'm experiencing technical difficulties. Please refresh the page or try again later."
          [] OTHER ->
               "Sorry, something went wrong. Would you like to try rephrasing your question?"

(***************************************************************************)
(* ApiWithRetry.fetch and fetchWithTimeout as a state machine.             *)
(***************************************************************************)
\* the signal of the RequestInit handed to fetch, { ...options, signal:
\* controller.signal }: the later property replaces the caller's
FetchSignalAborted ==
    LET options == [signal |-> callerSignalAborted]
        init    == [signal |-> aborted] @@ options
    IN  init.signal

\* null / undefined of a prop or of a state variable
Null == "null"

\* no ErrorDisplay is rendered
DisplayNotRendered ==
    /\ language = "en"
    /\ displayedError = Undefined
    /\ display = [rendered |-> FALSE]

\* no ProgressiveLoader is mounted
LoaderNotMounted ==
    /\ mounted = FALSE
    /\ isLoading = FALSE
    /\ onTimeout = Null
    /\ timeoutDuration = 60000
    /\ currentStage = 0
    /\ startTime = Null
    /\ timers = {}
    /\ now = 0
    /\ callStart = -1
    /\ timeoutCalls = 0
    /\ depsChanged = FALSE

\* the ui settings of the app state: frontendSettings is null until fetched,
\* and its limit_input_to_characters may be missing
NoUi == [defined |-> FALSE, limit_input_to_characters |-> 0]

\* nothing was passed to onSend yet
NothingSent == [kind |-> "none"]

\* no EnvironmentProvider is mounted
ProviderNotMounted ==
    /\ environments = {}
    /\ selectedEnvironment = Null
    /\ environmentsLoading = TRUE
    /\ hashEnv = Null
    /\ intendedEnvironment = Null
    /\ hashChangeEvents = 0
    /\ initPc = "fetching"
    /\ envLastStep = "none"
    /\ userActions = 0
    /\ lastUserAction = "none"

\* no EnvironmentSelector is mounted
SelectorNotMounted ==
    /\ pendingEnvironment = Null
    /\ isDialogOpen = FALSE
    /\ isTransitioning = FALSE
    /\ currentChat = Null
    /\ switches = <<>>

\* no AppStateProvider is mounted
AppStateNotMounted ==
    /\ appMounted = FALSE
    /\ frontendSettings = Null
    /\ chatHistory = Null
    /\ requests = {}
    /\ effectEnvironment = Null

\* none of the environment components is mounted
EnvNotMounted ==
    /\ ProviderNotMounted
    /\ SelectorNotMounted
    /\ AppStateNotMounted

\* no QuestionInput is mounted
InputNotMounted ==
    /\ question = ""
    /\ base64Image = Null
    /\ pdfContent = Null
    /\ disabled = FALSE
    /\ clearOnSend = FALSE
    /\ conversationId = Null
    /\ ui = NoUi
    /\ appInsights = Null
    /\ onSendCalls = 0
    /\ lastSent = NothingSent
    /\ trackedEvents = 0
    /\ submissions = 0
    /\ lastEvent = "none"
    /\ callsInFlight = 0

Init ==
    /\ pc = "loop"
    /\ url \in Urls
    /\ finalRetryOptions \in {MergeRetryOptions(o) : o \in UserRetryOptions}
    /\ attempt = 0
    /\ error = Undefined
    /\ lastError = Undefined
    /\ response = NoResponse
    /\ timeoutId = "none"
    /\ aborted = FALSE
    /\ telemetryData = Undefined
    /\ reportCount = 0
    /\ failedAttempts = 0
    /\ requestCount = 0
    /\ delayMs = 0
    /\ result = [kind |-> "pending"]
    /\ telemetryPost = "none"
    /\ pendingTimers = 0
    /\ rethrownCount = 0
    /\ networkOnly = TRUE
    /\ callerSignalAborted = FALSE
    /\ DisplayNotRendered
    /\ LoaderNotMounted
    /\ InputNotMounted
    /\ EnvNotMounted

\* the loop test holds: fetchWithTimeout arms its timer and calls fetch
IssueAttempt ==
    /\ pc = "loop"
    /\ attempt <= finalRetryOptions.maxRetries
    /\ pc' = "fetching"
    /\ timeoutId' = "pending"
    /\ pendingTimers' = pendingTimers + 1
    /\ aborted' = FALSE
    /\ requestCount' = requestCount + 1
    /\ error' = Undefined
    /\ response' = NoResponse
    /\ delayMs' = 0
    /\ UNCHANGED <<url, finalRetryOptions, attempt, lastError, telemetryData,
                   reportCount, failedAttempts, result, telemetryPost, rethrownCount,
                   networkOnly, callerSignalAborted>>
    /\ UNCHANGED <<displayVars, loaderVars, inputVars, envVars>>

\* the loop test fails: throw lastError!
LoopExit ==
    /\ pc = "loop"
    /\ attempt > finalRetryOptions.maxRetries
    /\ pc' = "done"
    /\ result' = [kind |-> "thrown", error |-> lastError]
    /\ UNCHANGED <<url, finalRetryOptions, attempt, error, lastError, response,
                   timeoutId, aborted, telemetryData, reportCount, failedAttempts,
                   requestCount, delayMs, telemetryPost, pendingTimers,
                   rethrownCount, networkOnly, callerSignalAborted>>
    /\ UNCHANGED <<displayVars, loaderVars, inputVars, envVars>>

\* a pending timer of fetchWithTimeout fires: controller.abort()
TimeoutFires ==
    /\ timeoutId = "pending"
    /\ timeoutId' = "fired"
    /\ pendingTimers' = pendingTimers - 1
    /\ aborted' = TRUE
    /\ UNCHANGED <<pc, url, finalRetryOptions, attempt, error, lastError, response,
                   telemetryData, reportCount, failedAttempts, requestCount, delayMs,
                   result, telemetryPost, rethrownCount, networkOnly,
                   callerSignalAborted>>
    /\ UNCHANGED <<displayVars, loaderVars, inputVars, envVars>>

\* a fetchWithTimeout without its finally clause
ClearTimeout_Skipped == UNCHANGED <<timeoutId, pendingTimers>>

\* finally { clearTimeout(timeoutId) }: a pending timer is released
ClearTimeout ==
    /\ timeoutId' = "cleared"
    /\ pendingTimers' = IF timeoutId = "pending" THEN pendingTimers - 1
                        ELSE pendingTimers

\* fetch resolves; fetchWithTimeout clears its timer and returns the response;
\* a 2xx response is returned, any other is made an ApiError and reported
FetchResolves ==
    /\ pc = "fetching"
    /\ ~FetchSignalAborted
    /\ \E status \in Statuses, statusText \in StatusTexts :
         LET r == Response(status, statusText)
             e == ApiError("HTTP " \o ToString(status) \o ": " \o statusText,
                           status, statusText)
         IN  /\ response' = r
             /\ ClearTimeout
             /\ IF r.ok
                THEN /\ pc' = "done"
                     /\ result' = [kind |-> "returned", response |-> r]
                     /\ UNCHANGED <<error, telemetryData, reportCount, failedAttempts,
                                    telemetryPost, networkOnly>>
                ELSE /\ pc' = "reportResponse"
                     /\ error' = e
                     /\ telemetryData' = TelemetryDataOf(e)
                     /\ telemetryPost' = "pending"
                     /\ reportCount' = reportCount + 1
                     /\ failedAttempts' = failedAttempts + 1
                     /\ networkOnly' = (networkOnly /\ categorizeError(e) = "network")
                     /\ UNCHANGED result
    /\ UNCHANGED <<url, finalRetryOptions, attempt, lastError, aborted, requestCount,
                   delayMs, rethrownCount, callerSignalAborted>>
    /\ UNCHANGED <<displayVars, loaderVars, inputVars, envVars>>

\* a catch clause that does not report the failure
FetchRejects_NotReported ==
    /\ pc = "fetching"
    /\ \E raw \in (IF FetchSignalAborted THEN {AbortError} ELSE FetchRejections) :
         LET e == ConvertFetchError(raw, url, finalRetryOptions.timeout)
         IN  /\ error' = e
             /\ lastError' = e
             /\ networkOnly' = (networkOnly /\ categorizeError(e) = "network")
    /\ ClearTimeout
    /\ pc' = "reportCaught"
    /\ telemetryPost' = "pending"
    /\ failedAttempts' = failedAttempts + 1
    /\ UNCHANGED <<url, finalRetryOptions, attempt, response, aborted, requestCount,
                   delayMs, result, rethrownCount, callerSignalAborted, telemetryData,
                   reportCount>>
    /\ UNCHANGED <<displayVars, loaderVars, inputVars, envVars>>

\* fetch rejects; fetchWithTimeout converts the error, clears its timer and
\* throws; the catch clause of ApiWithRetry.fetch reports it
FetchRejects ==
    /\ pc = "fetching"
    /\ \E raw \in (IF FetchSignalAborted THEN {AbortError} ELSE FetchRejections) :
         LET e == ConvertFetchError(raw, url, finalRetryOptions.timeout)
         IN  /\ error' = e
             /\ lastError' = e
             /\ telemetryData' = TelemetryDataOf(e)
             /\ networkOnly' = (networkOnly /\ categorizeError(e) = "network")
    /\ ClearTimeout
    /\ pc' = "reportCaught"
    /\ telemetryPost' = "pending"
    /\ reportCount' = reportCount + 1
    /\ failedAttempts' = failedAttempts + 1
    /\ UNCHANGED <<url, finalRetryOptions, attempt, response, aborted, requestCount,
                   delayMs, result, rethrownCount, callerSignalAborted>>
    /\ UNCHANGED <<displayVars, loaderVars, inputVars, envVars>>

\* a try block that starts the delay without awaiting it
ResponseReportSettles_DelayNotAwaited ==
    /\ pc = "reportResponse"
    /\ IF shouldRetry(response.status, attempt, finalRetryOptions.maxRetries)
       THEN /\ lastError' = error
            /\ pc' = "loop"
            /\ attempt' = attempt + 1
            /\ telemetryPost' = "none"
            /\ UNCHANGED <<telemetryData, reportCount, rethrownCount, delayMs>>
       ELSE /\ lastError' = error
            /\ telemetryData' = TelemetryDataOf(error)
            /\ telemetryPost' = "pending"
            /\ reportCount' = reportCount + 1
            /\ rethrownCount' = rethrownCount + 1
            /\ pc' = "reportCaught"
            /\ UNCHANGED <<delayMs, attempt>>
    /\ UNCHANGED <<url, finalRetryOptions, error, response, timeoutId,
                   aborted, failedAttempts, requestCount, result, pendingTimers,
                   networkOnly, callerSignalAborted>>
    /\ UNCHANGED <<displayVars, loaderVars, inputVars, envVars>>

\* the reportError awaited in the try block settles, its POST to
\* /api/telemetry/error resolved or rejected (and caught): the response is
\* retried by its status, or its ApiError is thrown into the catch clause,
\* which reports it
ResponseReportSettles ==
    /\ pc = "reportResponse"
    /\ IF shouldRetry(response.status, attempt, finalRetryOptions.maxRetries)
       THEN /\ lastError' = error
            /\ delayMs' = calculateDelay(attempt, finalRetryOptions)
            /\ pc' = "delayAfterResponse"
            /\ telemetryPost' \in {"resolved", "rejected"}
            /\ UNCHANGED <<telemetryData, reportCount, rethrownCount>>
       ELSE /\ lastError' = error
            /\ telemetryData' = TelemetryDataOf(error)
            /\ telemetryPost' = "pending"
            /\ reportCount' = reportCount + 1
            /\ rethrownCount' = rethrownCount + 1
            /\ pc' = "reportCaught"
            /\ UNCHANGED delayMs
    /\ UNCHANGED <<url, finalRetryOptions, attempt, error, response, timeoutId,
                   aborted, failedAttempts, requestCount, result, pendingTimers,
                   networkOnly, callerSignalAborted>>
    /\ UNCHANGED <<displayVars, loaderVars, inputVars, envVars>>

\* a catch clause that keeps one attempt too few
CaughtReportSettles_OffByOne ==
    /\ pc = "reportCaught"
    /\ telemetryPost' \in {"resolved", "rejected"}
    /\ LET retryInfo == isRetryableError(lastError)
       IN  IF retryInfo.isRetryable /\ attempt < finalRetryOptions.maxRetries - 1
           THEN /\ delayMs' = RetryDelay(retryInfo, attempt, finalRetryOptions)
                /\ pc' = "delayAfterCatch"
                /\ UNCHANGED result
           ELSE /\ pc' = "done"
                /\ result' = [kind |-> "thrown", error |-> lastError]
                /\ UNCHANGED delayMs
    /\ UNCHANGED <<url, finalRetryOptions, attempt, error, lastError, response,
                   timeoutId, aborted, telemetryData, reportCount, failedAttempts,
                   requestCount, pendingTimers, rethrownCount, networkOnly,
                   callerSignalAborted>>
    /\ UNCHANGED <<displayVars, loaderVars, inputVars, envVars>>

\* a catch clause into which a rejected telemetry POST propagates: the
\* rejection leaves ApiWithRetry.fetch in place of the retry-or-throw decision
CaughtReportSettles_DeliveryFailurePropagates ==
    /\ pc = "reportCaught"
    /\ telemetryPost' \in {"resolved", "rejected"}
    /\ LET retryInfo == isRetryableError(lastError)
       IN  IF telemetryPost' = "rejected"
           THEN /\ pc' = "done"
                /\ result' = [kind |-> "thrown",
                              error |-> [class |-> "TypeError", name |-> "TypeError",
                                         message |-> "Failed to fetch"]]
                /\ UNCHANGED delayMs
           ELSE IF retryInfo.isRetryable /\ attempt < finalRetryOptions.maxRetries
           THEN /\ delayMs' = RetryDelay(retryInfo, attempt, finalRetryOptions)
                /\ pc' = "delayAfterCatch"
                /\ UNCHANGED result
           ELSE /\ pc' = "done"
                /\ result' = [kind |-> "thrown", error |-> lastError]
                /\ UNCHANGED delayMs
    /\ UNCHANGED <<url, finalRetryOptions, attempt, error, lastError, response,
                   timeoutId, aborted, telemetryData, reportCount, failedAttempts,
                   requestCount, pendingTimers, rethrownCount, networkOnly,
                   callerSignalAborted>>
    /\ UNCHANGED <<displayVars, loaderVars, inputVars, envVars>>

\* the reportError awaited in the catch clause settles, its POST resolved or
\* rejected (and caught): the failure is retried if the policy says so and
\* attempts remain, else thrown
CaughtReportSettles ==
    /\ pc = "reportCaught"
    /\ telemetryPost' \in {"resolved", "rejected"}
    /\ LET retryInfo == isRetryableError(lastError)
       IN  IF retryInfo.isRetryable /\ attempt < finalRetryOptions.maxRetries
           THEN /\ delayMs' = RetryDelay(retryInfo, attempt, finalRetryOptions)
                /\ pc' = "delayAfterCatch"
                /\ UNCHANGED result
           ELSE /\ pc' = "done"
                /\ result' = [kind |-> "thrown", error |-> lastError]
                /\ UNCHANGED delayMs
    /\ UNCHANGED <<url, finalRetryOptions, attempt, error, lastError, response,
                   timeoutId, aborted, telemetryData, reportCount, failedAttempts,
                   requestCount, pendingTimers, rethrownCount, networkOnly,
                   callerSignalAborted>>
    /\ UNCHANGED <<displayVars, loaderVars, inputVars, envVars>>

\* a loop whose counter is not incremented
DelayElapses_NoIncrement ==
    /\ pc \in {"delayAfterResponse", "delayAfterCatch"}
    /\ pc' = "loop"
    /\ telemetryPost' = "none"
    /\ UNCHANGED <<url, finalRetryOptions, error, lastError, response, timeoutId,
                   aborted, telemetryData, reportCount, failedAttempts, requestCount,
                   delayMs, result, pendingTimers, rethrownCount, networkOnly,
                   callerSignalAborted, attempt>>
    /\ UNCHANGED <<displayVars, loaderVars, inputVars, envVars>>

\* the delay elapses: continue, attempt++
DelayElapses ==
    /\ pc \in {"delayAfterResponse", "delayAfterCatch"}
    /\ pc' = "loop"
    /\ attempt' = attempt + 1
    /\ telemetryPost' = "none"
    /\ UNCHANGED <<url, finalRetryOptions, error, lastError, response, timeoutId,
                   aborted, telemetryData, reportCount, failedAttempts, requestCount,
                   delayMs, result, pendingTimers, rethrownCount, networkOnly,
                   callerSignalAborted>>
    /\ UNCHANGED <<displayVars, loaderVars, inputVars, envVars>>

\* the caller aborts the AbortController whose signal it passed in the options
CallerAborts ==
    /\ result.kind = "pending"
    /\ ~callerSignalAborted
    /\ callerSignalAborted' = TRUE
    /\ UNCHANGED <<pc, url, finalRetryOptions, attempt, error, lastError, response,
                   timeoutId, aborted, telemetryData, reportCount, failedAttempts,
                   requestCount, delayMs, result, telemetryPost, pendingTimers,
                   rethrownCount, networkOnly>>
    /\ UNCHANGED <<displayVars, loaderVars, inputVars, envVars>>

Next ==
    \/ IssueAttempt
    \/ LoopExit
    \/ TimeoutFires
    \/ FetchResolves
    \/ FetchRejects
    \/ ResponseReportSettles
    \/ CaughtReportSettles
    \/ DelayElapses

\* a call whose caller passes no signal, or never aborts it
Spec == Init /\ [][Next]_vars

\* the same call when every request and every telemetry POST settles and every
\* delay elapses
FairSpec == Spec /\ WF_vars(Next)

NextWithCancel == Next \/ CallerAborts

\* a call whose caller may abort the signal it passed
CancelSpec == Init /\ [][NextWithCancel]_vars

(***************************************************************************)
(* ErrorDisplay (ErrorDisplay.tsx), with its default props showRetry,      *)
(* showRefresh, showRephrase and showReportIssue all true.                 *)
(***************************************************************************)
\* action buttons with a retry button that does not look at retryInfo
ErrorDisplayActions_RetryAlways(e) == {"retry", "rephrase", "refresh", "report"}

\* the action buttons rendered for an error
ErrorDisplayActions(e) ==
    LET retryInfo == isRetryableError(e)
    IN  (IF retryInfo.isRetryable THEN {"retry"} ELSE {})
            \cup {"rephrase", "refresh", "report"}

\* the languages of frontendSettings.ui.language
Languages == {"en", "de"}

\* t(key) of localization.ts under language lang: the entry of key in the
\* translations of lang, or key itself; it depends on lang and key alone
t(lang, key) == [lang |-> lang, key |-> key]

\* getMessageBarType of ErrorDisplay
getMessageBarType(e) ==
    LET severity == categorizeErrorSeverity(e)
    IN  CASE severity = "critical" -> "severeWarning"
          [] severity = "high" -> "error"
          [] severity = "medium" -> "warning"
          [] OTHER -> "info"

\* what ErrorDisplay renders for an error: the message bar, the buttons and
\* the note on automatic retries
ErrorDisplay(e, lang) ==
    LET retryInfo == isRetryableError(e)
    IN  [rendered |-> TRUE,
         messageBarType |-> getMessageBarType(e),
         text |-> t(lang, getUserFriendlyErrorMessage(e)),
         actions |-> ErrorDisplayActions(e),
         retryText |->
            IF retryInfo.isRetryable /\ "maxRetries" \in DOMAIN retryInfo
                  /\ retryInfo.maxRetries # 0
            THEN <<t(lang, "This error can be automatically retried"),
                   retryInfo.maxRetries, t(lang, "attempts remaining")>>
            ELSE <<>>]

\* no ApiWithRetry.fetch call is under way
ExecutorNotCalled ==
    /\ pc = "loop"
    /\ url = "/conversation"
    /\ finalRetryOptions = defaultRetryOptions
    /\ attempt = 0
    /\ error = Undefined
    /\ lastError = Undefined
    /\ response = NoResponse
    /\ timeoutId = "none"
    /\ aborted = FALSE
    /\ telemetryData = Undefined
    /\ reportCount = 0
    /\ failedAttempts = 0
    /\ requestCount = 0
    /\ delayMs = 0
    /\ result = [kind |-> "pending"]
    /\ telemetryPost = "none"
    /\ pendingTimers = 0
    /\ rethrownCount = 0
    /\ networkOnly = TRUE
    /\ callerSignalAborted = FALSE

\* the variables of the ApiWithRetry.fetch call
executorVars == <<pc, url, finalRetryOptions, attempt, error, lastError, response,
                  timeoutId, aborted, telemetryData, reportCount, failedAttempts,
                  requestCount, delayMs, result, telemetryPost, pendingTimers,
                  rethrownCount, networkOnly, callerSignalAborted>>

DisplayInit ==
    /\ ExecutorNotCalled
    /\ LoaderNotMounted
    /\ InputNotMounted
    /\ EnvNotMounted
    /\ language \in Languages
    /\ displayedError = Undefined
    /\ display = [rendered |-> FALSE]

\* ErrorDisplay is rendered with an error prop
RenderErrorDisplay ==
    /\ ~display.rendered
    /\ \E e \in DisplayErrors :
         /\ displayedError' = e
         /\ display' = ErrorDisplay(e, language)
    /\ UNCHANGED <<language, executorVars, loaderVars, inputVars, envVars>>

\* the parent stops rendering ErrorDisplay
RemoveErrorDisplay ==
    /\ display.rendered
    /\ displayedError' = Undefined
    /\ display' = [rendered |-> FALSE]
    /\ UNCHANGED <<language, executorVars, loaderVars, inputVars, envVars>>

DisplayNext ==
    \/ RenderErrorDisplay
    \/ RemoveErrorDisplay

\* ErrorDisplay rendered with one error after another
DisplaySpec == DisplayInit /\ [][DisplayNext]_vars

(***************************************************************************)
(* ProgressiveLoader (ProgressiveLoader.tsx): its props, its state, the    *)
(* timers of its effect, and a clock.  A render and the effect it causes   *)
(* are one step.                                                           *)
(***************************************************************************)
LOADING_STAGES ==
    <<[message |-> "Thinking...", duration |-> 5000],
      [message |-> "Still processing...", duration |-> 7000],
      [message |-> "This is taking longer than usual...", duration |-> 10000],
      [message |-> "Almost there, please be patient...", duration |-> 0]>>

\* timeoutDuration = 60000, the default of the prop
timeoutDurationDefault == 60000

\* the identities of the functions a parent passes as onTimeout
Callbacks == {"onTimeout1", "onTimeout2"}

\* the values of timeoutDuration: the default when the prop is not passed
TimeoutDurations == {timeoutDurationDefault, ShortTimeoutMs}

\* the stage timers the effect sets at time at: one for each stage with a
\* duration, setTimeout(() => setCurrentStage(index + 1), stage.duration)
StageTimers(at) ==
    {[kind |-> "stage", index |-> i - 1, callback |-> Null,
      at |-> at + LOADING_STAGES[i].duration] :
        i \in {j \in 1..Len(LOADING_STAGES) : LOADING_STAGES[j].duration > 0}}

\* the timeout timer the effect sets at time at
TimeoutTimer(cb, duration, at) ==
    IF cb # Null /\ duration > 0
    THEN {[kind |-> "timeout", index |-> -1, callback |-> cb, at |-> at + duration]}
    ELSE {}

\* a cleanup function that forgets the timeout timer
TimersAfterCleanup_TimeoutTimerKept == {tm \in timers : tm.kind = "timeout"}

\* the timers left by the cleanup function of the previous effect: it clears
\* the stage timers and the timeout timer
TimersAfterCleanup == {}

\* the effect runs for the props of the render, after the cleanup of the
\* previous effect
RunEffect(loading, cb, duration) ==
    IF loading
    THEN /\ startTime' = now
         /\ currentStage' = 0
         /\ timers' = TimersAfterCleanup \cup StageTimers(now)
                          \cup TimeoutTimer(cb, duration, now)
    ELSE /\ startTime' = Null
         /\ currentStage' = 0
         /\ timers' = TimersAfterCleanup

\* the message rendered; Null: the component renders nothing
LoaderMessage ==
    IF mounted /\ isLoading
    THEN LOADING_STAGES[Min(currentStage, Len(LOADING_STAGES) - 1) + 1].message
    ELSE Null

LoaderInit ==
    /\ ExecutorNotCalled
    /\ DisplayNotRendered
    /\ LoaderNotMounted
    /\ InputNotMounted
    /\ EnvNotMounted

\* the parent mounts the component, loading or not
MountLoader ==
    /\ ~mounted
    /\ mounted' = TRUE
    /\ \E loading \in BOOLEAN, cb \in Callbacks \cup {Null},
          duration \in TimeoutDurations :
         /\ isLoading' = loading
         /\ onTimeout' = cb
         /\ timeoutDuration' = duration
         /\ RunEffect(loading, cb, duration)
         /\ callStart' = IF loading THEN now ELSE -1
         /\ timeoutCalls' = IF loading THEN 0 ELSE timeoutCalls
    /\ depsChanged' = FALSE
    /\ UNCHANGED <<now, executorVars, displayVars, inputVars, envVars>>

\* a call starts: the parent re-renders with isLoading true
StartCall ==
    /\ mounted
    /\ ~isLoading
    /\ isLoading' = TRUE
    /\ RunEffect(TRUE, onTimeout, timeoutDuration)
    /\ callStart' = now
    /\ timeoutCalls' = 0
    /\ depsChanged' = FALSE
    /\ UNCHANGED <<mounted, onTimeout, timeoutDuration, now, executorVars, displayVars, inputVars, envVars>>

\* the call ends: the parent re-renders with isLoading false
EndCall ==
    /\ mounted
    /\ isLoading
    /\ isLoading' = FALSE
    /\ RunEffect(FALSE, onTimeout, timeoutDuration)
    /\ UNCHANGED <<mounted, onTimeout, timeoutDuration, now, callStart, timeoutCalls,
                   depsChanged, executorVars, displayVars, inputVars, envVars>>

\* the parent re-renders with another function as onTimeout (or none): the
\* dependency array of the effect has changed
ChangeOnTimeout ==
    /\ mounted
    /\ \E cb \in (Callbacks \cup {Null}) \ {onTimeout} :
         /\ onTimeout' = cb
         /\ RunEffect(isLoading, cb, timeoutDuration)
    /\ depsChanged' = TRUE
    /\ UNCHANGED <<mounted, isLoading, timeoutDuration, now, callStart, timeoutCalls,
                   executorVars, displayVars, inputVars, envVars>>

\* the parent re-renders with another timeoutDuration
ChangeTimeoutDuration ==
    /\ mounted
    /\ \E duration \in TimeoutDurations \ {timeoutDuration} :
         /\ timeoutDuration' = duration
         /\ RunEffect(isLoading, onTimeout, duration)
    /\ depsChanged' = TRUE
    /\ UNCHANGED <<mounted, isLoading, onTimeout, now, callStart, timeoutCalls,
                   executorVars, displayVars, inputVars, envVars>>

\* the parent unmounts the component: the cleanup function runs and the state
\* of the component is gone
UnmountLoader ==
    /\ mounted
    /\ mounted' = FALSE
    /\ isLoading' = FALSE
    /\ onTimeout' = Null
    /\ timeoutDuration' = timeoutDurationDefault
    /\ currentStage' = 0
    /\ startTime' = Null
    /\ timers' = TimersAfterCleanup
    /\ callStart' = -1
    /\ UNCHANGED <<now, timeoutCalls, depsChanged, executorVars, displayVars, inputVars, envVars>>

\* a stage timer that is due fires: setCurrentStage(index + 1)
StageTimerFires ==
    /\ \E tm \in timers :
         /\ tm.kind = "stage"
         /\ tm.at <= now
         /\ currentStage' = tm.index + 1
         /\ timers' = timers \ {tm}
    /\ UNCHANGED <<mounted, isLoading, onTimeout, timeoutDuration, startTime, now,
                   callStart, timeoutCalls, depsChanged, executorVars, displayVars, inputVars, envVars>>

\* the timeout timer is due and fires: onTimeout()
HardTimeoutFires ==
    /\ \E tm \in timers :
         /\ tm.kind = "timeout"
         /\ tm.at <= now
         /\ timers' = timers \ {tm}
    /\ timeoutCalls' = timeoutCalls + 1
    /\ UNCHANGED <<mounted, isLoading, onTimeout, timeoutDuration, currentStage,
                   startTime, now, callStart, depsChanged, executorVars, displayVars, inputVars, envVars>>

\* the deadline of the timer that is due next (MaxClock: none)
RECURSIVE EarliestDeadline(_)
EarliestDeadline(pending) ==
    IF pending = {} THEN MaxClock
    ELSE LET tm == CHOOSE x \in pending : TRUE
         IN  Min(tm.at, EarliestDeadline(pending \ {tm}))

\* time passes, by TickMs at most and not beyond the deadline of a timer: a
\* timer fires when it is due
Tick ==
    /\ now < MaxClock
    /\ \A tm \in timers : tm.at > now
    /\ now' = Min(Min(now + TickMs, MaxClock), EarliestDeadline(timers))
    /\ UNCHANGED <<mounted, isLoading, onTimeout, timeoutDuration, currentStage,
                   startTime, timers, callStart, timeoutCalls, depsChanged,
                   executorVars, displayVars, inputVars, envVars>>

LoaderNext ==
    \/ MountLoader
    \/ StartCall
    \/ EndCall
    \/ ChangeOnTimeout
    \/ ChangeTimeoutDuration
    \/ UnmountLoader
    \/ StageTimerFires
    \/ HardTimeoutFires
    \/ Tick

\* a ProgressiveLoader and its parent
LoaderSpec == LoaderInit /\ [][LoaderNext]_vars

(***************************************************************************)
(* QuestionInput (QuestionInput.tsx): the text, the attachments and the    *)
(* submission.  The parent that renders it passes disabled while a call it *)
(* started through onSend is outstanding.                                  *)
(***************************************************************************)
\* the number of submissions followed
MaxSubmissions == 3

\* the positive limit_input_to_characters an environment configures
MaxInputChars == 4

Whitespace == {" ", "\t", "\n"}

\* String.prototype.trim, computed character by character
RECURSIVE trimStart(_)
trimStart(s) ==
    IF Len(s) = 0 THEN ""
    ELSE IF SubSeq(s, 1, 1) \in Whitespace THEN trimStart(SubSeq(s, 2, Len(s)))
    ELSE s

RECURSIVE trimEnd(_)
trimEnd(s) ==
    IF Len(s) = 0 THEN ""
    ELSE IF SubSeq(s, Len(s), Len(s)) \in Whitespace
    THEN trimEnd(SubSeq(s, 1, Len(s) - 1))
    ELSE s

trim(s) == trimEnd(trimStart(s))

\* the texts the user types or pastes
Texts == {"", " ", " \n\t", "hi", " hi ", "hola", "hello", "hello!"}

\* frontendSettings.ui as QuestionInput reads it
UiSettings ==
    {NoUi} \cup {[defined |-> TRUE, limit_input_to_characters |-> n] :
                    n \in {-1, 0, MaxInputChars}}

ConversationIds == {Null, "conv-1"}

Images == {"data:image/png;base64,AAAA"}

PdfStrings == {"Page Number: 1\nsome text"}

\* a submission guard that ignores the disabled prop
sendQuestionDisabled_DisabledIgnored == Len(trim(question)) = 0

\* disabled || !question.trim()
sendQuestionDisabled == disabled \/ Len(trim(question)) = 0

\* the questionContent sendQuestion builds
QuestionContent(q, image, pdf) ==
    IF image # Null
    THEN [kind |-> "text+image_url", text |-> q, image_url |-> image, pdf |-> Null]
    ELSE IF pdf # Null
    THEN [kind |-> "text+pdf", text |-> q, image_url |-> Null, pdf |-> pdf]
    ELSE [kind |-> "text", text |-> q, image_url |-> Null, pdf |-> Null]

\* the onSend of the parent: it starts the conversation call and re-renders
\* QuestionInput with disabled until the call settles
onSend ==
    /\ callsInFlight' = callsInFlight + 1
    /\ disabled' = TRUE

\* a change handler without the length test
Accepted_NoLengthTest(newValue) ==
    /\ ui.defined
    /\ ui.limit_input_to_characters # 0
    /\ ui.limit_input_to_characters > 0
    /\ Len(newValue) # 0

\* ui?.limit_input_to_characters && ui?.limit_input_to_characters > 0 &&
\* newValue && newValue.length <= ui?.limit_input_to_characters
Accepted(newValue) ==
    /\ ui.defined
    /\ ui.limit_input_to_characters # 0
    /\ ui.limit_input_to_characters > 0
    /\ Len(newValue) # 0
    /\ Len(newValue) <= ui.limit_input_to_characters

InputInit ==
    /\ ExecutorNotCalled
    /\ DisplayNotRendered
    /\ LoaderNotMounted
    /\ EnvNotMounted
    /\ question = ""
    /\ base64Image = Null
    /\ pdfContent = Null
    /\ disabled = FALSE
    /\ clearOnSend \in BOOLEAN
    /\ conversationId \in ConversationIds
    /\ ui \in UiSettings
    /\ appInsights \in {Null, "appInsights"}
    /\ onSendCalls = 0
    /\ lastSent = NothingSent
    /\ trackedEvents = 0
    /\ submissions = 0
    /\ lastEvent = "none"
    /\ callsInFlight = 0

\* onQuestionChange(_ev, newValue): newValue is a string or undefined
OnQuestionChange(newValue) ==
    /\ question' = IF Accepted(newValue) THEN newValue
                   ELSE IF Len(newValue) = 0 THEN ""
                   ELSE question
    /\ lastEvent' = "change"
    /\ UNCHANGED <<base64Image, pdfContent, disabled, clearOnSend, conversationId, ui,
                   appInsights, onSendCalls, lastSent, trackedEvents, submissions,
                   callsInFlight>>
    /\ UNCHANGED <<executorVars, displayVars, loaderVars, envVars>>

\* the user edits the text field; an undefined newValue acts as the empty one
ChangeQuestion == \E newValue \in Texts : OnQuestionChange(newValue)

\* handleImageUpload settles for a chosen file: a PDF is read into pdfContent
\* (null when it cannot be loaded), any other file is resized into base64Image
\* (kept as it was when that fails)
HandleImageUpload ==
    /\ \/ /\ pdfContent' \in PdfStrings \cup {Null}
          /\ UNCHANGED base64Image
       \/ /\ base64Image' \in Images
          /\ UNCHANGED pdfContent
    /\ lastEvent' = "upload"
    /\ UNCHANGED <<question, disabled, clearOnSend, conversationId, ui, appInsights,
                   onSendCalls, lastSent, trackedEvents, submissions, callsInFlight>>
    /\ UNCHANGED <<executorVars, displayVars, loaderVars, envVars>>

\* sendQuestion, called by a click on the send button or by the Enter key
SendQuestion ==
    /\ submissions < MaxSubmissions
    /\ submissions' = submissions + 1
    /\ trackedEvents' = IF appInsights # Null THEN trackedEvents + 1
                        ELSE trackedEvents
    /\ IF sendQuestionDisabled
       THEN /\ lastEvent' = "rejected"
            /\ UNCHANGED <<question, base64Image, pdfContent, onSendCalls, lastSent,
                           disabled, callsInFlight>>
       ELSE /\ lastEvent' = "sent"
            /\ onSendCalls' = onSendCalls + 1
            /\ lastSent' = [content |-> QuestionContent(question, base64Image,
                                                        pdfContent),
                            id |-> conversationId]
            /\ onSend
            /\ pdfContent' = Null
            /\ base64Image' = Null
            /\ question' = IF clearOnSend THEN "" ELSE question
    /\ UNCHANGED <<clearOnSend, conversationId, ui, appInsights>>
    /\ UNCHANGED <<executorVars, displayVars, loaderVars, envVars>>

\* the call the parent started settles: it re-renders QuestionInput enabled
CallSettles ==
    /\ callsInFlight > 0
    /\ callsInFlight' = callsInFlight - 1
    /\ disabled' = (callsInFlight' > 0)
    /\ lastEvent' = "settled"
    /\ UNCHANGED <<question, base64Image, pdfContent, clearOnSend, conversationId, ui,
                   appInsights, onSendCalls, lastSent, trackedEvents, submissions>>
    /\ UNCHANGED <<executorVars, displayVars, loaderVars, envVars>>

InputNext ==
    \/ ChangeQuestion
    \/ HandleImageUpload
    \/ SendQuestion
    \/ CallSettles

\* one QuestionInput and the conversation calls it starts
InputSpec == InputInit /\ [][InputNext]_vars

(***************************************************************************)
(* EnvironmentProvider (EnvironmentProvider.tsx): the fetched list, the    *)
(* selection, the env parameter of the URL hash, the stored intended       *)
(* environment and the hashchange events of the window.                    *)
(***************************************************************************)
\* the number of selections and navigations followed
MaxUserActions == 3

DEFAULT_ENV_ID == "default"

\* the ids the backend may list
EnvironmentIds == {"env1", "env2"}

\* the lists fetchEnvironments resolves with ([] also when the request fails)
EnvironmentLists == {{}, {"env1"}, {"env1", "env2"}}

\* the ids a caller, a URL or the storage may carry: listed ones, the default
\* and one the backend never lists
CarriedIds == EnvironmentIds \cup {DEFAULT_ENV_ID, "zzz"}

\* searchParams.get('env') of a hash: null without the parameter, '' for ?env=
UrlEnvs == CarriedIds \cup {Null, ""}

\* a JavaScript string-or-null in a condition
Truthy(x) == x # Null /\ x # ""

\* a validity test that accepts every id
isValidEnvironment_AnyId(envId) == TRUE

\* envId === DEFAULT_ENV_ID || environments.some(env => env.id === envId)
isValidEnvironment(envId) ==
    envId = DEFAULT_ENV_ID \/ envId \in environments

\* the same test against the list just fetched
IsValidIn(data, envId) ==
    envId = DEFAULT_ENV_ID \/ envId \in data

\* an update that leaves the hash as it is
updateUrlWithEnvironment_HashKept(envId, queued) ==
    /\ hashEnv' = hashEnv
    /\ hashChangeEvents' = queued

\* updateUrlWithEnvironment(envId): the hash is assigned when it differs, and
\* the window then dispatches a hashchange event; queued is the number of
\* events waiting otherwise
updateUrlWithEnvironment(envId, queued) ==
    IF hashEnv # envId
    THEN /\ hashEnv' = envId
         /\ hashChangeEvents' = queued + 1
    ELSE /\ hashEnv' = hashEnv
         /\ hashChangeEvents' = queued

\* the page is loaded with some hash, with or without an intended environment
\* left in the session storage by an earlier load
ProviderMounted ==
    /\ environments = {}
    /\ selectedEnvironment = Null
    /\ environmentsLoading = TRUE
    /\ hashEnv \in UrlEnvs
    /\ intendedEnvironment \in CarriedIds \cup {Null}
    /\ hashChangeEvents = 0
    /\ initPc = "fetching"
    /\ envLastStep = "none"
    /\ userActions = 0
    /\ lastUserAction = "none"

\* the effects of AppStateProvider have run for the current selection
AppEffectsRan == appMounted => effectEnvironment = selectedEnvironment

\* fetchEnvironments resolves and initializeEnvironments runs to its end
InitializeEnvironments ==
    /\ initPc = "fetching"
    /\ AppEffectsRan
    /\ initPc' = "done"
    /\ envLastStep' = "init"
    /\ environmentsLoading' = FALSE
    /\ \E data \in EnvironmentLists :
         /\ environments' = data
         /\ LET intendedEnv == intendedEnvironment
                urlEnv == hashEnv
            IN  IF Truthy(intendedEnv) /\ IsValidIn(data, intendedEnv)
                THEN /\ intendedEnvironment' = Null
                     /\ selectedEnvironment' = intendedEnv
                     /\ updateUrlWithEnvironment(intendedEnv, hashChangeEvents)
                ELSE IF Truthy(urlEnv) /\ IsValidIn(data, urlEnv)
                THEN /\ intendedEnvironment' = urlEnv
                     /\ selectedEnvironment' = urlEnv
                     /\ UNCHANGED <<hashEnv, hashChangeEvents>>
                ELSE /\ intendedEnvironment' = Null
                     /\ selectedEnvironment' = DEFAULT_ENV_ID
                     /\ updateUrlWithEnvironment(DEFAULT_ENV_ID, hashChangeEvents)
    /\ UNCHANGED <<userActions, lastUserAction>>
    /\ UNCHANGED <<selectorVars, appVars>>
    /\ UNCHANGED <<executorVars, displayVars, loaderVars, inputVars>>

\* the window delivers a hashchange event: handleHashChange
HandleHashChange ==
    /\ hashChangeEvents > 0
    /\ AppEffectsRan
    /\ envLastStep' = "hashchange"
    /\ LET envId == hashEnv
       IN  IF Truthy(envId) /\ isValidEnvironment(envId)
           THEN /\ intendedEnvironment' = envId
                /\ selectedEnvironment' = envId
                /\ hashChangeEvents' = hashChangeEvents - 1
                /\ UNCHANGED hashEnv
           ELSE IF ~Truthy(envId)
           THEN /\ intendedEnvironment' = DEFAULT_ENV_ID
                /\ selectedEnvironment' = DEFAULT_ENV_ID
                /\ updateUrlWithEnvironment(DEFAULT_ENV_ID, hashChangeEvents - 1)
           ELSE /\ hashChangeEvents' = hashChangeEvents - 1
                /\ UNCHANGED <<intendedEnvironment, selectedEnvironment, hashEnv>>
    /\ UNCHANGED <<environments, environmentsLoading, initPc, userActions,
                   lastUserAction>>
    /\ UNCHANGED <<selectorVars, appVars>>
    /\ UNCHANGED <<executorVars, displayVars, loaderVars, inputVars>>

\* setEnvironment(environmentId), the setSelectedEnvironment of the context
setEnvironment(environmentId) ==
    IF isValidEnvironment(environmentId)
    THEN /\ intendedEnvironment' = environmentId
         /\ selectedEnvironment' = environmentId
         /\ updateUrlWithEnvironment(environmentId, hashChangeEvents)
    ELSE UNCHANGED <<intendedEnvironment, selectedEnvironment, hashEnv,
                     hashChangeEvents>>

\* a consumer of the context calls setSelectedEnvironment
SetSelectedEnvironment(environmentId) ==
    /\ userActions < MaxUserActions
    /\ AppEffectsRan
    /\ userActions' = userActions + 1
    /\ envLastStep' = "select"
    /\ lastUserAction' = IF isValidEnvironment(environmentId) THEN "select"
                          ELSE "selectUnknown"
    /\ setEnvironment(environmentId)
    /\ UNCHANGED <<environments, environmentsLoading, initPc>>
    /\ UNCHANGED <<selectorVars, appVars>>
    /\ UNCHANGED <<executorVars, displayVars, loaderVars, inputVars>>

SelectSomeEnvironment == \E environmentId \in CarriedIds :
                             SetSelectedEnvironment(environmentId)

\* the user changes the hash (a link, the address bar, the back button)
Navigate ==
    /\ userActions < MaxUserActions
    /\ userActions' = userActions + 1
    /\ envLastStep' = "navigate"
    /\ \E newEnv \in UrlEnvs \ {hashEnv} :
         /\ hashEnv' = newEnv
         /\ lastUserAction' = IF Truthy(newEnv) THEN "hashEnv" ELSE "hashEmpty"
    /\ hashChangeEvents' = hashChangeEvents + 1
    /\ UNCHANGED <<environments, selectedEnvironment, environmentsLoading,
                   intendedEnvironment, initPc>>
    /\ UNCHANGED <<selectorVars, appVars>>
    /\ UNCHANGED <<executorVars, displayVars, loaderVars, inputVars>>

ProviderInit ==
    /\ ExecutorNotCalled
    /\ DisplayNotRendered
    /\ LoaderNotMounted
    /\ InputNotMounted
    /\ ProviderMounted
    /\ SelectorNotMounted
    /\ AppStateNotMounted

ProviderNext ==
    \/ InitializeEnvironments
    \/ HandleHashChange
    \/ SelectSomeEnvironment
    \/ Navigate

\* EnvironmentProvider, its consumers calling setSelectedEnvironment directly
ProviderSpec == ProviderInit /\ [][ProviderNext]_vars

\* the same when every dispatched hashchange event is delivered and the fetch
\* of the environments settles
ProviderFairSpec == ProviderSpec /\ WF_vars(HandleHashChange)
                                 /\ WF_vars(InitializeEnvironments)

(***************************************************************************)
(* EnvironmentSelector (EnvironmentSelector.tsx): the dropdown, the        *)
(* confirmation dialog and the executeEnvironmentSwitch calls, each a      *)
(* chain of three timers (300 ms, 100 ms, 300 ms).                         *)
(***************************************************************************)
\* a selector that never sees an active chat
hasActiveChat_Never == FALSE

\* appStateContext?.state.currentChat !== null
hasActiveChat == currentChat # Null

\* the positions of an executeEnvironmentSwitch call, in order: waiting for the
\* fade out, waiting for the new environment to load, waiting for the clean up
SwitchStages == <<"fadeOut", "load", "cleanUp">>

StageIndex(p) == CHOOSE k \in 1..Len(SwitchStages) : SwitchStages[k] = p

\* executeEnvironmentSwitch(newEnvironmentId) up to its first await
executeEnvironmentSwitch(newEnvironmentId) ==
    /\ isTransitioning' = TRUE
    /\ switches' = Append(switches, [env |-> newEnvironmentId, pc |-> "fadeOut"])

\* the user picks an option of the dropdown, which is enabled and not covered
\* by the blocking dialog: handleEnvironmentChange
HandleEnvironmentChange ==
    /\ userActions < MaxUserActions
    /\ ~environmentsLoading
    /\ ~isTransitioning
    /\ ~isDialogOpen
    /\ AppEffectsRan
    /\ userActions' = userActions + 1
    /\ envLastStep' = "dropdown"
    /\ \E newEnvironmentId \in environments :
         IF hasActiveChat
         THEN /\ pendingEnvironment' = newEnvironmentId
              /\ isDialogOpen' = TRUE
              /\ UNCHANGED <<isTransitioning, switches>>
         ELSE /\ executeEnvironmentSwitch(newEnvironmentId)
              /\ UNCHANGED <<pendingEnvironment, isDialogOpen>>
    /\ UNCHANGED <<environments, selectedEnvironment, environmentsLoading, hashEnv,
                   intendedEnvironment, hashChangeEvents, initPc, lastUserAction,
                   currentChat>>
    /\ UNCHANGED appVars
    /\ UNCHANGED <<executorVars, displayVars, loaderVars, inputVars>>

\* the Switch button of the dialog: handleConfirmSwitch
HandleConfirmSwitch ==
    /\ isDialogOpen
    /\ envLastStep' = "confirm"
    /\ IF Truthy(pendingEnvironment)
       THEN /\ executeEnvironmentSwitch(pendingEnvironment)
            /\ pendingEnvironment' = Null
       ELSE UNCHANGED <<isTransitioning, switches, pendingEnvironment>>
    /\ isDialogOpen' = FALSE
    /\ UNCHANGED <<providerVars_ExceptLastStep, currentChat>>
    /\ UNCHANGED appVars
    /\ UNCHANGED <<executorVars, displayVars, loaderVars, inputVars>>

\* the Cancel button of the dialog: handleDismissDialog
HandleDismissDialog ==
    /\ isDialogOpen
    /\ envLastStep' = "dismiss"
    /\ pendingEnvironment' = Null
    /\ isDialogOpen' = FALSE
    /\ UNCHANGED <<providerVars_ExceptLastStep, isTransitioning, switches, currentChat>>
    /\ UNCHANGED appVars
    /\ UNCHANGED <<executorVars, displayVars, loaderVars, inputVars>>

\* the timer the i-th executeEnvironmentSwitch call waits for fires.  Timers
\* of equal delay fire in the order they were set, so a call passes a stage
\* only after the calls started before it have passed it.
SwitchStep(i) ==
    /\ i \in 1..Len(switches)
    /\ \A j \in 1..(i - 1) : StageIndex(switches[j].pc) > StageIndex(switches[i].pc)
    /\ AppEffectsRan
    /\ envLastStep' = "switch"
    /\ LET call == switches[i]
       IN  CASE call.pc = "fadeOut" ->
                  /\ setEnvironment(call.env)
                  /\ switches' = [switches EXCEPT ![i].pc = "load"]
                  /\ UNCHANGED isTransitioning
             [] call.pc = "load" ->
                  /\ switches' = [switches EXCEPT ![i].pc = "cleanUp"]
                  /\ UNCHANGED <<isTransitioning, intendedEnvironment,
                                 selectedEnvironment, hashEnv, hashChangeEvents>>
             [] call.pc = "cleanUp" ->
                  /\ isTransitioning' = FALSE
                  /\ switches' = SubSeq(switches, 1, i - 1)
                                    \o SubSeq(switches, i + 1, Len(switches))
                  /\ UNCHANGED <<intendedEnvironment, selectedEnvironment, hashEnv,
                                 hashChangeEvents>>
    /\ UNCHANGED <<environments, environmentsLoading, initPc, userActions,
                   lastUserAction, pendingEnvironment, isDialogOpen, currentChat>>
    /\ UNCHANGED appVars
    /\ UNCHANGED <<executorVars, displayVars, loaderVars, inputVars>>

SomeSwitchStep == \E i \in 1..Len(switches) : SwitchStep(i)

\* a conversation becomes the current chat of the app state, or the current
\* chat is cleared
ChangeCurrentChat ==
    /\ envLastStep' = "chat"
    /\ currentChat' = IF currentChat = Null THEN "chat-1" ELSE Null
    /\ UNCHANGED <<providerVars_ExceptLastStep, pendingEnvironment, isDialogOpen,
                   isTransitioning, switches>>
    /\ UNCHANGED appVars
    /\ UNCHANGED <<executorVars, displayVars, loaderVars, inputVars>>

SelectorNext ==
    \/ InitializeEnvironments
    \/ HandleHashChange
    \/ Navigate
    \/ HandleEnvironmentChange
    \/ HandleConfirmSwitch
    \/ HandleDismissDialog
    \/ SomeSwitchStep
    \/ ChangeCurrentChat

\* EnvironmentSelector inside EnvironmentProvider
SelectorSpec == ProviderInit /\ [][SelectorNext]_vars

\* the same when every timer of a switch fires
SelectorFairSpec == SelectorSpec /\ WF_vars(SomeSwitchStep)

(***************************************************************************)
(* AppStateProvider (AppProvider.tsx): the two effects that depend on the  *)
(* selected environment, their requests and the app state the responses    *)
(* are dispatched into.                                                    *)
(***************************************************************************)
\* the environment a request made for envId is answered for: without an id
\* historyList asks for 'default' and /frontend_settings answers for the default
EnvironmentOf(envId) == IF envId = Null THEN DEFAULT_ENV_ID ELSE envId

\* the requests made by the effects run for envId
EffectRequests(envId) ==
    {[kind |-> "historyEnsure", env |-> envId],
     [kind |-> "frontendSettings", env |-> envId]}

\* the reducer's FETCH_FRONTEND_SETTINGS: the payload becomes the settings
FETCH_FRONTEND_SETTINGS(payload) == frontendSettings' = payload

\* the reducer's FETCH_CHAT_HISTORY: the payload becomes the chat history
FETCH_CHAT_HISTORY(payload) == chatHistory' = payload

\* the reducer's RESET_CHAT_STATE: the current chat is cleared
RESET_CHAT_STATE == currentChat' = Null

\* AppStateProvider is mounted inside a just mounted EnvironmentProvider: its
\* effects have run for the selection null
AppStateMounted ==
    /\ appMounted = TRUE
    /\ frontendSettings = Null
    /\ chatHistory = Null
    /\ requests = EffectRequests(Null)
    /\ effectEnvironment = Null

\* the render after a change of selectedEnvironment: both effects run again,
\* the chat state is reset, and the requests for the new selection are made
RunEnvironmentEffects ==
    /\ appMounted
    /\ effectEnvironment # selectedEnvironment
    /\ effectEnvironment' = selectedEnvironment
    /\ envLastStep' = "effects"
    /\ RESET_CHAT_STATE
    /\ requests' = requests \cup EffectRequests(selectedEnvironment)
    /\ UNCHANGED <<appMounted, frontendSettings, chatHistory>>
    /\ UNCHANGED <<providerVars_ExceptLastStep, pendingEnvironment, isDialogOpen,
                   isTransitioning, switches>>
    /\ UNCHANGED <<executorVars, displayVars, loaderVars, inputVars>>

\* historyEnsure settles: with a working CosmosDB fetchChatHistory asks for
\* the history of the selection the effect ran for, otherwise nothing is asked
HistoryEnsureSettles ==
    /\ \E r \in requests :
         /\ r.kind = "historyEnsure"
         /\ \E cosmosDB \in BOOLEAN :
              requests' = (requests \ {r})
                             \cup (IF cosmosDB
                                   THEN {[kind |-> "historyList", env |-> r.env]}
                                   ELSE {})
    /\ envLastStep' = "response"
    /\ UNCHANGED <<appMounted, frontendSettings, chatHistory, effectEnvironment>>
    /\ UNCHANGED <<providerVars_ExceptLastStep, selectorVars>>
    /\ UNCHANGED <<executorVars, displayVars, loaderVars, inputVars>>

\* historyList settles: the conversations of the asked environment, or null
\* when the request failed, are dispatched as the chat history
HistoryListSettles ==
    /\ \E r \in requests :
         /\ r.kind = "historyList"
         /\ requests' = requests \ {r}
         /\ \E payload \in {EnvironmentOf(r.env), Null} :
              FETCH_CHAT_HISTORY(payload)
    /\ envLastStep' = "response"
    /\ UNCHANGED <<appMounted, frontendSettings, effectEnvironment>>
    /\ UNCHANGED <<providerVars_ExceptLastStep, selectorVars>>
    /\ UNCHANGED <<executorVars, displayVars, loaderVars, inputVars>>

\* frontendSettings settles: the settings of the asked environment, or null
\* when the request failed, are dispatched as the frontend settings
FrontendSettingsSettles ==
    /\ \E r \in requests :
         /\ r.kind = "frontendSettings"
         /\ requests' = requests \ {r}
         /\ \E payload \in {EnvironmentOf(r.env), Null} :
              FETCH_FRONTEND_SETTINGS(payload)
    /\ envLastStep' = "response"
    /\ UNCHANGED <<appMounted, chatHistory, effectEnvironment>>
    /\ UNCHANGED <<providerVars_ExceptLastStep, selectorVars>>
    /\ UNCHANGED <<executorVars, displayVars, loaderVars, inputVars>>

\* the number of changes of the selection followed while responses are awaited
MaxQuickChanges == 2

\* the user changes the selection while responses are outstanding or not
ChangeSelectionQuickly ==
    /\ userActions < MaxQuickChanges
    /\ SelectSomeEnvironment

AppInit ==
    /\ ExecutorNotCalled
    /\ DisplayNotRendered
    /\ LoaderNotMounted
    /\ InputNotMounted
    /\ ProviderMounted
    /\ SelectorNotMounted
    /\ AppStateMounted

AppNext ==
    \/ InitializeEnvironments
    \/ HandleHashChange
    \/ ChangeSelectionQuickly
    \/ RunEnvironmentEffects
    \/ HistoryEnsureSettles
    \/ HistoryListSettles
    \/ FrontendSettingsSettles

\* AppStateProvider inside EnvironmentProvider
AppSpec == AppInit /\ [][AppNext]_vars

(***************************************************************************)
(* The claims.                                                             *)
(***************************************************************************)
Delaying == pc \in {"delayAfterResponse", "delayAfterCatch"}

\* the retry count and delays are the defaults of the class
DefaultDelays ==
    /\ finalRetryOptions.baseDelay = 1000
    /\ finalRetryOptions.backoffFactor = 2
    /\ finalRetryOptions.maxDelay = 10000

\* C1: the failure raised for an attempt that its timer aborted is classified
\* 'timeout' by categorizeError, whatever the url, and so is retryable.
C1_TimeoutFailureIsTimeoutCategory ==
    (pc = "reportCaught" /\ aborted) =>
        /\ categorizeError(error) = "timeout"
        /\ isRetryableError(error).isRetryable

\* C2: every failed attempt is reported exactly once: the number of reportError
\* calls of a fetch call equals its number of failed attempts.
C2_OneReportPerFailure == reportCount = failedAttempts

\* C3: a failure is retried only while the attempt number is below the
\* maxRetries of the failure's own category (3 for network and timeout, 2 for
\* streaming and api); stated for a call with the default options.
C3_RetriesBoundedByCategory ==
    (finalRetryOptions = defaultRetryOptions /\ Delaying
        /\ "maxRetries" \in DOMAIN isRetryableError(lastError)) =>
        attempt < isRetryableError(lastError).maxRetries

\* an api-category failure of HTTP status 503
Api503(e) ==
    /\ "message" \in DOMAIN e
    /\ categorizeError(e) = "api"
    /\ IF "status" \in DOMAIN e THEN e.status = 503 ELSE includes(e.message, "503")

\* C4: with the default options, an api-category failure with status 503 is
\* retried at attempt 0, its policy maxRetries being 2, and is thrown at
\* attempt 2.
C4_Api503Decision ==
    (finalRetryOptions = defaultRetryOptions /\ error = lastError /\ Api503(error)
        /\ (Delaying \/ pc = "done")) =>
        /\ isRetryableError(error).isRetryable
        /\ isRetryableError(error).maxRetries = 2
        /\ (attempt = 0 => Delaying)
        /\ (attempt = 2 => pc = "done")

\* C5: an api-category failure is retryable by the policy exactly when its
\* status is >= 500, 408 or 429, and the policy agrees with shouldRetry.
C5_ApiRetryableByStatus ==
    (pc = "reportResponse" /\ categorizeError(error) = "api") =>
        /\ isRetryableError(error).isRetryable
              <=> (error.status >= 500 \/ error.status = 408 \/ error.status = 429)
        /\ isRetryableError(error).isRetryable
              <=> shouldRetry(error.status, attempt, attempt + 1)

\* C6: the failure made of a non-2xx response carries the response's status
\* and is classified 'api'.
C6_ResponseFailureIsApiCategory ==
    pc = "reportResponse" =>
        /\ error.status = response.status
        /\ categorizeError(error) = "api"

\* C7: no delay and further request follows a failure classified 'auth'.
C7_AuthNeverRetried == Delaying => categorizeError(lastError) # "auth"

\* C8: no delay and further request follows a failure classified 'unknown'.
C8_UnknownNeverRetried == Delaying => categorizeError(lastError) # "unknown"

\* C9: the delay waited before the next attempt is the retryAfter the policy
\* gives for the failure, if it gives one, and otherwise
\* min(baseDelay * backoffFactor^attempt, maxDelay).
C9_DelayWaited ==
    Delaying =>
        delayMs = IF "retryAfter" \in DOMAIN isRetryableError(lastError)
                  THEN isRetryableError(lastError).retryAfter
                  ELSE Min(finalRetryOptions.baseDelay
                             * (finalRetryOptions.backoffFactor ^ attempt),
                           finalRetryOptions.maxDelay)

\* C10: with baseDelay 1000, backoffFactor 2 and maxDelay 10000 the delay
\* calculateDelay gives is 1000, 2000, 4000, 8000 for attempts 0..3 and 10000
\* from attempt 4 on; it never exceeds maxDelay and does not decrease with the
\* attempt number.
C10_DefaultBackoffTable ==
    (pc = "delayAfterResponse" /\ DefaultDelays) =>
        /\ delayMs = calculateDelay(attempt, finalRetryOptions)
        /\ delayMs = CASE attempt = 0 -> 1000
                       [] attempt = 1 -> 2000
                       [] attempt = 2 -> 4000
                       [] attempt = 3 -> 8000
                       [] OTHER -> 10000
        /\ delayMs <= finalRetryOptions.maxDelay
        /\ delayMs <= calculateDelay(attempt + 1, finalRetryOptions)
        /\ \A a \in 0..attempt :
             calculateDelay(a, finalRetryOptions) <= delayMs

\* a fifth failed attempt is being retried after the clamped delay
C10_Witness ==
    /\ pc = "delayAfterResponse"
    /\ DefaultDelays
    /\ attempt = 4
    /\ delayMs = 10000

\* C11: only a response with a 2xx status is returned, and the first one ends
\* the call: once returned, no request, delay or telemetry report follows.
C11_OnlyOkReturnedAndFinal ==
    /\ [](result.kind = "returned" =>
            /\ result.response.status >= 200 /\ result.response.status <= 299
            /\ result.response = response
            /\ pc = "done")
    /\ [][result.kind = "returned" =>
            UNCHANGED <<requestCount, reportCount, delayMs, result, pc>>]_vars

\* a response is returned after an earlier attempt failed
C11_Witness == result.kind = "returned" /\ attempt > 0

\* the attempts of the call that are in flight
InFlight ==
    requestCount - failedAttempts - (IF result.kind = "returned" THEN 1 ELSE 0)

\* C12: at most one attempt is in flight; an attempt is issued only when every
\* earlier attempt has settled as a failure, that failure has been reported
\* and the report awaited, and the retry delay has elapsed.
C12_SequentialAttempts ==
    /\ [](InFlight \in {0, 1} /\ (InFlight = 1 <=> pc = "fetching"))
    /\ [][requestCount' # requestCount =>
            /\ pc = "loop"
            /\ failedAttempts = requestCount
            /\ reportCount >= failedAttempts
            /\ telemetryPost # "pending"
            /\ (attempt > 0 => delayMs > 0)]_vars

\* the second attempt is in flight
C12_Witness == pc = "fetching" /\ attempt = 1 /\ requestCount = 2

\* the retry policy deems the failure retryable
Retryable(e) == "message" \in DOMAIN e /\ isRetryableError(e).isRetryable

\* C13: a failure the policy deems retryable is thrown only at attempt =
\* maxRetries; at an earlier attempt it leads to the delay before the next
\* attempt and nothing is thrown.
C13_RetryableThrownOnlyWhenExhausted ==
    /\ []((result.kind = "thrown" /\ Retryable(result.error)) =>
            attempt = finalRetryOptions.maxRetries)
    /\ [][(pc = "reportCaught" /\ Retryable(lastError)
             /\ attempt < finalRetryOptions.maxRetries) =>
            (pc' = "delayAfterCatch" /\ result'.kind = "pending")]_vars
    /\ [][(pc = "reportResponse" /\ Retryable(error)
             /\ attempt < finalRetryOptions.maxRetries) =>
            (pc' \in {"delayAfterResponse", "reportCaught"}
                /\ result'.kind = "pending")]_vars

\* a retryable failure is thrown at the last of several attempts
C13_Witness ==
    /\ result.kind = "thrown"
    /\ Retryable(result.error)
    /\ attempt = finalRetryOptions.maxRetries
    /\ attempt >= 1

ReportSettles == ResponseReportSettles \/ CaughtReportSettles

\* the awaited reportError can settle with its POST resolved, or rejected, and
\* the call go on to position p
DecisionPossible(post, p) ==
    ENABLED (ReportSettles /\ telemetryPost' = post /\ pc' = p)

\* C15: a rejected telemetry POST does not propagate: reportError completes,
\* the call goes on to the same retry-or-throw decision as with a resolved
\* POST, and what is finally thrown is the failure of the request.
C15_TelemetryFailureDoesNotPropagate ==
    /\ telemetryPost = "rejected" =>
         /\ pc \in {"delayAfterResponse", "delayAfterCatch", "done"}
         /\ result.kind = "thrown" => (result.error = lastError /\ result.error = error)
    /\ pc \in {"reportResponse", "reportCaught"} =>
         \A p \in {"delayAfterResponse", "delayAfterCatch", "done"} :
              DecisionPossible("rejected", p) <=> DecisionPossible("resolved", p)

\* a failure is retried although the POST of its report was rejected
C15_Witness == telemetryPost = "rejected" /\ pc = "delayAfterCatch"

\* a step of the call that no settling of a telemetry report takes part in
StepWithoutReport ==
    \/ IssueAttempt
    \/ LoopExit
    \/ FetchResolves
    \/ FetchRejects
    \/ DelayElapses

\* C16: the call's progress does not depend on a telemetry report completing:
\* while the POST of a report is pending the call has a step of its own, so
\* that it retries or throws even if that POST never settles.
C16_ProgressWithoutReport == telemetryPost = "pending" => ENABLED StepWithoutReport

\* C17: once the caller has aborted the signal it passed in the options, the
\* request in flight is aborted.
C17_CallerAbortAbortsFetch ==
    (pc = "fetching" /\ callerSignalAborted) => FetchSignalAborted

\* C18: the timer of an attempt is pending only while its fetch is awaited:
\* whenever fetchWithTimeout has returned or thrown no timer is pending, and at
\* most one timer is pending at any time.
C18_TimerReleased ==
    /\ pendingTimers \in {0, 1}
    /\ pc # "fetching" => (pendingTimers = 0 /\ timeoutId # "pending")
    /\ timeoutId = "pending" <=> pendingTimers = 1

\* fetchWithTimeout has thrown for the second attempt, after its timer aborted
\* the request
C18_Witness ==
    /\ pc = "reportCaught"
    /\ aborted
    /\ requestCount = 2
    /\ timeoutId = "cleared"

\* a call that returned after exactly two failed attempts, both classified
\* 'network'
TwoNetworkFailuresThenSuccess ==
    result.kind = "returned" /\ failedAttempts = 2 /\ networkOnly

\* C19 as stated: two network-classified failures followed by a success give
\* the response, no thrown error and exactly three telemetry reports.
C19_ThreeReports == TwoNetworkFailuresThenSuccess => reportCount = 3

\* C19, amended: two network-classified failures followed by a success give
\* the response of the third attempt, no thrown error, and one telemetry
\* report per failed attempt, two in all, plus one more for each of the two
\* failures that was a non-2xx response thrown into the catch clause.
C19_ReportsAfterTwoNetworkFailures ==
    TwoNetworkFailuresThenSuccess =>
        /\ attempt = 2
        /\ requestCount = 3
        /\ result.response.ok
        /\ reportCount = 2 + rethrownCount
        /\ rethrownCount \in 0..2

\* two network failures, two reports, then the response
C19_Witness == TwoNetworkFailuresThenSuccess /\ reportCount = 2

\* C20: a call that fails with an auth-classified error makes no retry and
\* exactly one telemetry report, and the error display offers refresh and
\* report for it, and no retry.
C20_AuthFailureOneReportNoRetry ==
    (result.kind = "thrown" /\ failedAttempts = 1
        /\ "message" \in DOMAIN result.error
        /\ categorizeError(result.error) = "auth") =>
        /\ attempt = 0
        /\ requestCount = 1
        /\ reportCount = 1
        /\ {"refresh", "report"} \subseteq ErrorDisplayActions(result.error)
        /\ "retry" \notin ErrorDisplayActions(result.error)

\* the category of the error on display
DisplayedCategory == categorizeError(displayedError)

\* the lower-cased message of the error on display
DisplayedMessage == toLowerCase(displayedError.message)

\* C21 as stated: the retry action is offered exactly when the category is
\* network or timeout; rephrase and refresh are offered for every category.
C21_RetryOnlyNetworkOrTimeout ==
    display.rendered =>
        /\ "retry" \in display.actions <=> DisplayedCategory \in {"network", "timeout"}
        /\ {"rephrase", "refresh"} \subseteq display.actions

\* C21, amended: with the default props, the retry action is offered exactly
\* when the category is network, timeout or streaming, or the category is api
\* and the message contains 500, 502 or 503; rephrase, refresh and report are
\* offered for every category.
C21_RetryWhenRetryable ==
    display.rendered =>
        /\ "retry" \in display.actions <=>
              \/ DisplayedCategory \in {"network", "timeout", "streaming"}
              \/ /\ DisplayedCategory = "api"
                 /\ \E code \in {"500", "502", "503"} : includes(DisplayedMessage, code)
        /\ {"rephrase", "refresh", "report"} \subseteq display.actions

\* retry is offered for a streaming error
C21_Witness ==
    display.rendered /\ DisplayedCategory = "streaming" /\ "retry" \in display.actions

\* C22 as stated: an error whose message contains "timeout" or "aborted" in
\* any casing is of category 'timeout'.
C22_TimeoutOrAbortedIsTimeout ==
    (display.rendered
        /\ (includes(DisplayedMessage, "timeout") \/ includes(DisplayedMessage, "aborted")))
    => DisplayedCategory = "timeout"

\* C22, amended: an error whose message contains "timeout" or "aborted" in any
\* casing, and neither "network" nor "fetch" in any casing, is of category
\* 'timeout'.
C22_TimeoutUnlessNetwork ==
    (display.rendered
        /\ (includes(DisplayedMessage, "timeout") \/ includes(DisplayedMessage, "aborted"))
        /\ ~includes(DisplayedMessage, "network")
        /\ ~includes(DisplayedMessage, "fetch"))
    => /\ DisplayedCategory = "timeout"
       /\ display.text.key = "Request timed out. Please try again or rephrase your question."

\* an upper-case TIMEOUT is classified 'timeout'
C22_Witness ==
    /\ display.rendered
    /\ IncludesOf(displayedError.message, "TIMEOUT")
    /\ DisplayedCategory = "timeout"

\* the reference decision list: a keyword matches when the lower-cased message
\* or the lower-cased name contains it; the first match wins
ReferenceCategory(e) ==
    LET message == toLowerCase(e.message)
        name    == toLowerCase(e.name)
        Match(keyword) == includes(message, keyword) \/ includes(name, keyword)
    IN  IF Match("network") \/ Match("fetch") THEN "network"
        ELSE IF Match("timeout") \/ Match("aborted") THEN "timeout"
        ELSE IF Match("unauthorized") \/ Match("forbidden") THEN "auth"
        ELSE IF Match("stream") \/ Match("reader") THEN "streaming"
        ELSE IF Match("api") \/ Match("server") THEN "api"
        ELSE "unknown"

\* C23: categorizeError equals the reference decision list on the error's
\* message and name, and yields one of the six categories.
C23_MatchesReferenceList ==
    display.rendered =>
        /\ DisplayedCategory = ReferenceCategory(displayedError)
        /\ DisplayedCategory \in
              {"network", "timeout", "auth", "streaming", "api", "unknown"}

\* the fixed severity table
SeverityTable ==
    [category \in {"network", "timeout", "auth", "streaming", "api", "unknown"} |->
        CASE category = "auth" -> "critical"
          [] category = "api" -> "high"
          [] category = "timeout" -> "medium"
          [] category = "streaming" -> "medium"
          [] category = "network" -> "low"
          [] category = "unknown" -> "medium"]

\* C24: the severity of an error is the entry of its category in the fixed
\* table, so errors of one category have one severity; the message bar of the
\* display follows it.
C24_SeverityByCategory ==
    display.rendered =>
        /\ categorizeErrorSeverity(displayedError) = SeverityTable[DisplayedCategory]
        /\ display.messageBarType =
              CASE SeverityTable[DisplayedCategory] = "critical" -> "severeWarning"
                [] SeverityTable[DisplayedCategory] = "high" -> "error"
                [] SeverityTable[DisplayedCategory] = "medium" -> "warning"
                [] OTHER -> "info"

\* a network error is shown with severity low
C24_Witness ==
    /\ display.rendered
    /\ DisplayedCategory = "network"
    /\ categorizeErrorSeverity(displayedError) = "low"
    /\ display.messageBarType = "info"

\* the fixed text of each category
UserFriendlyMessages ==
    [category \in {"network", "timeout", "auth", "streaming", "api", "unknown"} |->
        CASE category = "network" ->
               "Network connection issue. Please check your internet connection and try again."
          [] category = "timeout" ->
               "Request timed out. Please try again or rephrase your question."
          [] category = "auth" ->
               "Authentication issue. Please refresh the page and try again."
          [] category = "streaming" -> "Connection interrupted. Please try again."
          [] category = "api" ->
               "I'm experiencing technical difficulties. Please refresh the page or try again later."
          [] category = "unknown" ->
               "Sorry, something went wrong. Would you like to try rephrasing your question?"]

\* C25: the text on display is the translation of the fixed text of the
\* error's category, so errors of one category show one text (in one
\* language); neither the error's message nor its stack is part of the text
\* or of the note on retries.
C25_FixedTextPerCategory ==
    display.rendered =>
        /\ display.text = t(language, UserFriendlyMessages[DisplayedCategory])
        /\ ~IncludesOf(display.text.key, displayedError.message)
        /\ ~IncludesOf(display.text.key, displayedError.stack)
        /\ display.retryText \in
              {<<>>} \cup {<<t(language, "This error can be automatically retried"), n,
                             t(language, "attempts remaining")>> : n \in {2, 3}}

\* an error of no known category is shown with the fixed text of 'unknown'
C25_Witness ==
    /\ display.rendered
    /\ DisplayedCategory = "unknown"
    /\ display.text.key =
          "Sorry, something went wrong. Would you like to try rephrasing your question?"

\* a call is under way in the mounted component
Loading == mounted /\ isLoading

\* the stage the thresholds 5000, 12000 and 22000 ms give at an elapsed time
ExpectedStage(elapsed) ==
    IF elapsed < 5000 THEN 0
    ELSE IF elapsed < 12000 THEN 1
    ELSE IF elapsed < 22000 THEN 2
    ELSE 3

\* C26: while a call keeps loading with unchanged props, and every timer that
\* is due has fired, the stage is Stage0 before 5000 ms from call start, Stage1
\* from 5000 ms, Stage2 from 12000 ms and Stage3 from 22000 ms.
C26_StageThresholds ==
    (Loading /\ ~depsChanged /\ \A tm \in timers : tm.at > now) =>
        currentStage = ExpectedStage(now - callStart)

\* C27: while isLoading stays true the stage never decreases, stays within
\* 0..3 and moves one stage at a time.
C27_StageNeverDecreases ==
    [][(Loading /\ Loading') =>
            /\ currentStage' >= currentStage
            /\ currentStage' <= currentStage + 1
            /\ currentStage' \in 0..3]_vars

C29_TimeoutCallbackOnce == Loading => timeoutCalls <= 1

\* C30: the stage is changed only by a stage timer of the component that is
\* due, or reset to 0 when a call starts or ends; a call that starts has stage
\* 0 and timers whose deadlines are the thresholds from its own start.
C30_StageChangedByTimersOnly ==
    /\ [][currentStage' # currentStage =>
            \/ /\ Loading /\ Loading'
               /\ \E tm \in timers :
                    tm.kind = "stage" /\ tm.at <= now /\ currentStage' = tm.index + 1
            \/ /\ Loading' # Loading
               /\ currentStage' = 0]_vars
    /\ [][(~Loading /\ Loading') =>
            /\ currentStage' = 0
            /\ callStart' = now
            /\ \A tm \in timers' : tm.at > now']_vars

(***************************************************************************)
(* QuestionInput.                                                          *)
(***************************************************************************)
\* the question is empty or whitespace only
Blank == Len(trim(question)) = 0

\* the step is a call of sendQuestion
Submitting == submissions' = submissions + 1

\* C31: a submission made while the input is disabled (a prior call is
\* outstanding) or with empty or whitespace-only text never invokes onSend and
\* starts no call, and at most one call is in flight at any time
C31_RejectedSubmissionNeverSends ==
    /\ [][(Submitting /\ (disabled \/ Blank))
            => /\ onSendCalls' = onSendCalls
               /\ callsInFlight' = callsInFlight]_vars
    /\ [](callsInFlight <= 1)

\* a submission was just rejected while a call was outstanding, the text
\* being neither empty nor blank
C31_Witness ==
    /\ lastEvent = "rejected"
    /\ disabled
    /\ callsInFlight = 1
    /\ ~Blank
    /\ onSendCalls = 1

\* C32: a rejected submission (empty or whitespace-only text, or input
\* disabled) changes nothing and emits nothing: the question, the image and
\* the PDF stay as they are, onSend is not invoked and no analytics event is
\* tracked
C32_RejectedSubmissionNoEffect ==
    [][(Submitting /\ (disabled \/ Blank))
        => /\ UNCHANGED <<question, base64Image, pdfContent>>
           /\ UNCHANGED <<onSendCalls, lastSent, callsInFlight>>
           /\ trackedEvents' = trackedEvents]_vars

\* the configured limit is positive
LimitConfigured == ui.defined /\ ui.limit_input_to_characters > 0

C34_ThrownIsLastReportedFailure ==
    finalRetryOptions.maxRetries >= 0 =>
        /\ ~(pc = "loop" /\ attempt > finalRetryOptions.maxRetries)
        /\ result.kind = "thrown" =>
               /\ result.error # Undefined
               /\ result.error = error
               /\ requestCount = attempt + 1
               /\ reportCount >= 1
               /\ telemetryData = TelemetryDataOf(result.error)

\* the failure of the last of several attempts was thrown
C34_Witness ==
    /\ result.kind = "thrown"
    /\ finalRetryOptions.maxRetries >= 1
    /\ attempt = finalRetryOptions.maxRetries
    /\ result.error = error

(***************************************************************************)
(* EnvironmentProvider.                                                    *)
(***************************************************************************)
\* the env value of the URL is missing or is not a known environment of envs
UrlEnvMissingOrUnknown(envs) ==
    ~Truthy(hashEnv) \/ ~(hashEnv = DEFAULT_ENV_ID \/ hashEnv \in envs)

\* the session storage holds an intended environment that envs knows
StoredPreferenceKnown(envs) ==
    /\ Truthy(intendedEnvironment)
    /\ (intendedEnvironment = DEFAULT_ENV_ID \/ intendedEnvironment \in envs)

\* C33: an absent or invalid environment id falls back to the default: at
\* initialisation (where no known stored preference stands in) and on every
\* hash change, if the URL's env value is missing or is not a known
\* environment, the selected environment becomes 'default'
C33_MissingOrUnknownFallsBackToDefault ==
    [][/\ (initPc = "fetching" /\ initPc' = "done"
               /\ ~StoredPreferenceKnown(environments')
               /\ UrlEnvMissingOrUnknown(environments'))
            => selectedEnvironment' = DEFAULT_ENV_ID
       /\ (hashChangeEvents > 0 /\ envLastStep' = "hashchange"
               /\ UrlEnvMissingOrUnknown(environments))
            => selectedEnvironment' = DEFAULT_ENV_ID]_vars

\* C36: the selected environment is always null, the default id or the id
\* of an environment of the fetched list, and setSelectedEnvironment with an
\* unknown id leaves the selection, the URL and the stored preference as
\* they are
C36_SelectionAlwaysKnown ==
    /\ [](selectedEnvironment \in {Null, DEFAULT_ENV_ID} \cup environments)
    /\ [][\A id \in CarriedIds :
            (SetSelectedEnvironment(id) /\ id # DEFAULT_ENV_ID
                /\ id \notin environments)
                => UNCHANGED <<selectedEnvironment, hashEnv, intendedEnvironment>>]_vars

\* setSelectedEnvironment was called with an id that is not known (the list
\* is not fetched yet) and nothing is selected
C36_Witness ==
    /\ envLastStep = "select"
    /\ lastUserAction = "selectUnknown"
    /\ selectedEnvironment = Null

\* no hashchange event is waiting to be handled
Quiescent == hashChangeEvents = 0

\* C37: after setSelectedEnvironment(valid id) or a hash change without env
\* parameter, the chain URL update -> hashchange event -> handler ends: no
\* event is left, no further update is triggered, and the env parameter of
\* the URL equals the selected environment
C37_SelectionAndUrlAgree ==
    /\ []((lastUserAction \in {"select", "hashEmpty"} /\ Quiescent)
            => hashEnv = selectedEnvironment)
    /\ (lastUserAction \in {"select", "hashEmpty"}) ~> Quiescent

\* after a hash change without env parameter the chain has ended with the
\* default environment selected and in the URL
C37_Witness ==
    /\ lastUserAction = "hashEmpty"
    /\ envLastStep = "hashchange"
    /\ Quiescent
    /\ hashEnv = DEFAULT_ENV_ID
    /\ selectedEnvironment = DEFAULT_ENV_ID

(***************************************************************************)
(* EnvironmentSelector.                                                    *)
(***************************************************************************)
\* C38: while a chat is active a dropdown selection does not change the
\* selected environment: it records the pending environment and opens the
\* dialog, and starts no switch; with a chat active a switch starts only on
\* confirm; dismiss clears the pending environment and leaves the selected
\* environment alone; and the transitioning flag set by a switch eventually
\* returns to false
C38_SwitchOnlyOnConfirm ==
    /\ [][(envLastStep' = "dropdown" /\ currentChat # Null)
            => /\ selectedEnvironment' = selectedEnvironment
               /\ switches' = switches
               /\ pendingEnvironment' \in environments
               /\ isDialogOpen']_vars
    /\ [][(Len(switches') > Len(switches) /\ currentChat # Null)
            => envLastStep' = "confirm"]_vars
    /\ [][envLastStep' = "dismiss"
            => /\ pendingEnvironment' = Null
               /\ selectedEnvironment' = selectedEnvironment
               /\ switches' = switches]_vars
    /\ isTransitioning ~> ~isTransitioning

\* with a chat active the dialog was confirmed and the switch to the pending
\* environment is under way
C38_Witness ==
    /\ envLastStep = "confirm"
    /\ currentChat # Null
    /\ isTransitioning
    /\ Len(switches) = 1
    /\ pendingEnvironment = Null
    /\ ~isDialogOpen

(***************************************************************************)
(* AppStateProvider.                                                       *)
(***************************************************************************)
\* C35: once the effects have run for the selected environment and every
\* response has arrived, the frontend settings and the chat history held in
\* the app state are those of the selected environment, however often the
\* selection changed and in whatever order the responses arrived
C35_LatestEnvironmentWins ==
    (requests = {} /\ effectEnvironment = selectedEnvironment)
        => /\ frontendSettings \in {Null, EnvironmentOf(selectedEnvironment)}
           /\ chatHistory \in {Null, EnvironmentOf(selectedEnvironment)}

====
